---- MODULE Spec2Model ----
(***************************************************************************)
(* Transfer subsystem of PyLabFlow (src/plf1/transfer.py): export_transfer *)
(* and import_transfer over a file system shared by a BASE lab, a REMOTE   *)
(* lab and a lab whose role is neither.  Paths are tuples of parts, as     *)
(* pathlib.Path.parts gives them; an archive is the sequence of its        *)
(* members in the order they were written.                                 *)
(***************************************************************************)
EXTENDS Integers, Sequences, FiniteSets, TLC

VARIABLES
    settings,   \* lab -> shared settings {data_path, lab_id, lab_role, transfer_context}
    fs,         \* path -> body of every regular file that is not an archive
    dirs,       \* set of paths that are directories
    zips,       \* path -> sequence of members of every archive file
    cloneJson,  \* clone_id -> transfers list of Clones/<clone_id>/clone.json
    minted,     \* number of transfer ids minted so far
    nops,       \* number of operations run so far
    last,       \* the call that ran last, its outcome and its order of effects
    util        \* the call under study of the resolver, the mapper or the clone report

vars == <<settings, fs, dirs, zips, cloneJson, minted, nops, last, util>>

\* Number of export/import calls explored.
MaxOps == 2

----------------------------------------------------------------------------
\* Paths

RECURSIVE NormalizeFrom(_, _)
NormalizeFrom(done, rest) ==
    IF rest = <<>> THEN done
    ELSE IF Head(rest) = ".."
         THEN IF Len(done) > 1
              THEN NormalizeFrom(SubSeq(done, 1, Len(done) - 1), Tail(rest))
              ELSE NormalizeFrom(done, Tail(rest))
         ELSE NormalizeFrom(Append(done, Head(rest)), Tail(rest))

\* Path.resolve() / what the OS does with a path: '..' segments collapse.
Normalize(p) == NormalizeFrom(<<>>, p)

\* Path.is_absolute()
IsAbsolute(p) == Len(p) > 0 /\ p[1] = "/"

\* a / b
Join(a, b) == IF IsAbsolute(b) THEN b ELSE a \o b

IsPrefix(a, b) == Len(a) <= Len(b) /\ SubSeq(b, 1, Len(a)) = a

\* Path.relative_to(base); only used where IsPrefix(base, p).
RelativeTo(p, base) == SubSeq(p, Len(base) + 1, Len(p))

\* Path.parent
Parent(p) == SubSeq(p, 1, Len(p) - 1)

\* Path.name
Name(p) == IF Len(p) = 0 THEN "" ELSE p[Len(p)]

\* the directory itself and every ancestor of it
Ancestors(p) == { SubSeq(p, 1, n) : n \in 1..Len(p) }

\* Path.mkdir(parents=True, exist_ok=True)
MkdirP(d, p) == d \cup Ancestors(Normalize(p))

PathLess(a, b) ==
    \/ Len(a) < Len(b)
    \/ /\ Len(a) = Len(b)
       /\ \E i \in 1..Len(a) :
            /\ \A j \in 1..(i - 1) : a[j] = b[j]
            /\ a[i] # b[i]
            /\ a[i] = CHOOSE x \in {a[i], b[i]} : TRUE

RECURSIVE SortedPaths(_)
\* the order in which a directory walk yields a set of paths
SortedPaths(S) ==
    IF S = {} THEN <<>>
    ELSE LET m == CHOOSE x \in S : \A y \in S \ {x} : PathLess(x, y)
         IN  <<m>> \o SortedPaths(S \ {m})

----------------------------------------------------------------------------
\* Labs and their settings

Labs == {"B", "R", "X"}

DataPath(lab) == <<"/", lab>>

LabRole(lab) == CASE lab = "B" -> "base" [] lab = "R" -> "remote" [] OTHER -> "staging"

NoPath == <<>>

NoCtx == [path_map |-> {}, component_map |-> {}, transfer_id |-> NoPath, attached |-> FALSE]

InitSettings ==
    [lab \in Labs |-> [data_path |-> DataPath(lab), lab_id |-> lab,
                       lab_role |-> LabRole(lab), transfer_context |-> NoCtx]]

----------------------------------------------------------------------------
\* File bodies, archive members, transfer.json

NoMeta == [transfer_id |-> NoPath, origin_lab_id |-> "", target_lab_id |-> "",
           prev_transfer_id |-> "", direction |-> "", transfer_type |-> "",
           ppls |-> <<>>, path_map |-> {}, component_map |-> {}]

Data(n) == [data |-> n, meta |-> NoMeta]

MetaBody(m) == [data |-> 0, meta |-> m]

Member(name, body) == [name |-> name, body |-> body]

TransferJson == <<"transfer.json">>

----------------------------------------------------------------------------
\* The pipeline store (PipeLine): verify, paths, get_path

Ppls == {"p1", "p2", "bad"}

ValidPpls == {"p1", "p2"}

\* PipeLine.verify(pplid)
Verify(pplid) == pplid \in ValidPpls

\* PipeLine.paths, in enumeration order
ArtKinds == <<"config", "weights", "logs", "ext">>

\* PipeLine.get_path(of=art) of pipeline pplid in the lab
GetPath(lab, pplid, art) ==
    CASE art = "config"  -> DataPath(lab) \o <<"Configs", pplid>>
      [] art = "weights" -> DataPath(lab) \o <<"Weights", pplid>>
      [] art = "logs"    -> DataPath(lab) \o <<"Logs", pplid>>
      [] OTHER           -> <<"/", "ext", pplid>>

NonConfigKinds == SelectSeq(ArtKinds, LAMBDA a : a # "config")

----------------------------------------------------------------------------
\* File system primitives

\* Path.exists()
Exists(f, d, p) == p \in DOMAIN f \/ p \in d

\* files found by p.rglob("*") with is_file(), in walk order
FilesUnder(f, p) == SortedPaths({ q \in DOMAIN f : IsPrefix(p, q) /\ q # p })

Without(f, S) == [q \in (DOMAIN f) \ S |-> f[q]]

\* shutil.rmtree(p) when p is a directory, p.unlink() otherwise
RemoveFs(f, d, p) ==
    IF p \in d THEN Without(f, { q \in DOMAIN f : IsPrefix(p, q) })
    ELSE Without(f, {p})

RemoveDirs(d, p) ==
    IF p \in d THEN { q \in d : ~IsPrefix(p, q) } ELSE d

\* writing a file creates it (or replaces its body); its parents exist afterwards
WriteFs(f, p, body) == (p :> body) @@ f

----------------------------------------------------------------------------
\* Role enforcement

\* _ensure_base passes
EnsureBase(s) == s.lab_role = "base"

\* _ensure_remote that lets every role through
EnsureRemote_AnyRole(s) == TRUE

\* _ensure_remote passes
EnsureRemote(s) == s.lab_role = "remote"

\* a remote lab that may export every transfer type
RemoteMayExport_AnyType(transfer_type) == TRUE

\* the transfer types a remote lab may export
RemoteMayExport(transfer_type) == transfer_type = "results"

----------------------------------------------------------------------------
\* Export

Ev(e, p) == [ev |-> e, path |-> p]

WriteEvents(members) == [i \in 1..Len(members) |-> Ev("write", members[i].name)]

\* what a call leaves behind: its result and the state after it
Outcome(result, f, d, z, cj, m, zip, events) ==
    [result |-> result, fs |-> f, dirs |-> d, zips |-> z, cloneJson |-> cj,
     minted |-> m, zip |-> zip, events |-> events, settings |-> settings]

\* a call that raised before it touched anything
Raised(result) == Outcome(result, fs, dirs, zips, cloneJson, minted, NoPath, <<>>)

\* one non-config artifact of a pipeline staged into a base_to_remote archive;
\* an exception while staging it is swallowed and the artifact skipped
StageArtBase(lab, pplid, art) ==
    LET lab_base == Normalize(settings[lab].data_path)
        p        == Normalize(GetPath(lab, pplid, art))
        files    == FilesUnder(fs, p)
    IN  IF ~Exists(fs, dirs, p) THEN <<>>
        ELSE IF p \in dirs
             THEN IF IsPrefix(lab_base, p)
                  THEN [i \in 1..Len(files) |->
                          Member(RelativeTo(files[i], lab_base), fs[files[i]])]
                  ELSE <<>>
             ELSE IF IsPrefix(lab_base, p)
                  THEN <<Member(RelativeTo(p, lab_base), fs[p])>>
                  ELSE <<>>

RECURSIVE StageArtsBase(_, _, _)
StageArtsBase(lab, pplid, kinds) ==
    IF kinds = <<>> THEN <<>>
    ELSE StageArtBase(lab, pplid, Head(kinds)) \o StageArtsBase(lab, pplid, Tail(kinds))

RECURSIVE StageBase(_, _, _)
\* the loop over ppls inside the open archive: the members written and the
\* exception that ended the loop, if any
StageBase(lab, ppls, acc) ==
    IF ppls = <<>> THEN [members |-> acc, err |-> ""]
    ELSE LET pplid    == Head(ppls)
             lab_base == Normalize(settings[lab].data_path)
             cfg      == Normalize(GetPath(lab, pplid, "config"))
         IN  IF ~Verify(pplid)
             THEN [members |-> acc, err |-> "ValueError: Invalid pplid"]
             ELSE IF ~IsPrefix(lab_base, cfg)
             THEN [members |-> acc, err |-> "ValueError: not in the subpath"]
             ELSE IF cfg \notin DOMAIN fs
             THEN [members |-> acc, err |-> "FileNotFoundError"]
             ELSE StageBase(lab, Tail(ppls),
                     acc \o <<Member(RelativeTo(cfg, lab_base), fs[cfg])>>
                         \o StageArtsBase(lab, pplid, NonConfigKinds))

\* a move phase that does not skip the config
MoveKinds_WithConfig == ArtKinds

\* the artifact kinds the move phase deletes
MoveKinds == SelectSeq(ArtKinds, LAMBDA a : a # "config")

RECURSIVE MoveTargets(_, _)
\* the paths the move phase visits, in loop order
MoveTargets(lab, ppls) ==
    IF ppls = <<>> THEN <<>>
    ELSE [i \in 1..Len(MoveKinds) |-> GetPath(lab, Head(ppls), MoveKinds[i])]
         \o MoveTargets(lab, Tail(ppls))

RECURSIVE MoveApply(_, _, _)
\* the move phase over its targets: file system, directories and deletions made
MoveApply(targets, st, evs) ==
    IF targets = <<>> THEN [fs |-> st.fs, dirs |-> st.dirs, events |-> evs]
    ELSE LET p == Head(targets)
         IN  IF Exists(st.fs, st.dirs, p)
             THEN MoveApply(Tail(targets),
                            [fs |-> RemoveFs(st.fs, st.dirs, p),
                             dirs |-> RemoveDirs(st.dirs, p)],
                            Append(evs, Ev("delete", p)))
             ELSE MoveApply(Tail(targets), st, evs)

\* a registration that replaces the list instead of appending to it
RegisterTransfer_Overwrite(transfers, transfer_id) == <<transfer_id>>

\* clone_cfg.setdefault("transfers", []).append(transfer_id)
RegisterTransfer(transfers, transfer_id) == Append(transfers, transfer_id)

\* _export_base_to_remote
ExportBaseToRemote(lab, ppls, clone_id, transfer_type, mode) ==
    LET lab_base    == Normalize(settings[lab].data_path)
        clone_dir   == lab_base \o <<"Clones", clone_id>>
        transfer_id == "t_" \o ToString(minted + 1)
        zip_path    == clone_dir \o <<"transfers", transfer_id \o ".zip">>
        dirs1       == MkdirP(dirs, Parent(zip_path))
        transfer_meta == [NoMeta EXCEPT !.transfer_id = <<transfer_id>>,
                                        !.origin_lab_id = settings[lab].lab_id,
                                        !.target_lab_id = clone_id,
                                        !.direction = "base_to_remote",
                                        !.transfer_type = transfer_type,
                                        !.ppls = ppls]
        staged      == StageBase(lab, ppls, <<>>)
        members     == staged.members \o <<Member(TransferJson, MetaBody(transfer_meta))>>
        evOpen      == <<Ev("open", zip_path)>>
        evSealed    == evOpen \o WriteEvents(members) \o <<Ev("seal", zip_path)>>
        moved       == IF mode = "move"
                       THEN MoveApply(MoveTargets(lab, ppls), [fs |-> fs, dirs |-> dirs1],
                                      <<>>)
                       ELSE [fs |-> fs, dirs |-> dirs1, events |-> <<>>]
    IN  IF ~EnsureBase(settings[lab])
        THEN Raised("RuntimeError: Operation allowed only in BASE lab")
        ELSE IF ~Exists(fs, dirs, clone_dir)
        THEN Raised("ValueError: Clone not registered")
        ELSE IF staged.err # ""
        THEN Outcome(staged.err, fs, dirs1, (zip_path :> staged.members) @@ zips,
                     cloneJson, minted + 1, zip_path,
                     evOpen \o WriteEvents(staged.members) \o <<Ev("close", zip_path)>>)
        ELSE IF clone_id \notin DOMAIN cloneJson
        THEN Outcome("FileNotFoundError: clone.json", fs, dirs1,
                     (zip_path :> members) @@ zips, cloneJson, minted + 1, zip_path,
                     evSealed)
        ELSE Outcome("ok", moved.fs, moved.dirs, (zip_path :> members) @@ zips,
                     [cloneJson EXCEPT ![clone_id] = RegisterTransfer(@, transfer_id)],
                     minted + 1, zip_path,
                     evSealed \o <<Ev("register", clone_dir \o <<"clone.json">>)>>
                              \o moved.events)

\* one non-config artifact of a pipeline staged into a results archive
StageArtRemote(lab, pplid, art) ==
    LET p     == GetPath(lab, pplid, art)
        files == FilesUnder(fs, p)
    IN  IF ~Exists(fs, dirs, p) THEN <<>>
        ELSE IF p \in dirs
             THEN [i \in 1..Len(files) |->
                     Member(<<"Results", pplid, art>> \o RelativeTo(files[i], p),
                            fs[files[i]])]
             ELSE <<Member(<<"Results", pplid, art, Name(p)>>, fs[p])>>

RECURSIVE StageArtsRemote(_, _, _)
StageArtsRemote(lab, pplid, kinds) ==
    IF kinds = <<>> THEN <<>>
    ELSE StageArtRemote(lab, pplid, Head(kinds))
         \o StageArtsRemote(lab, pplid, Tail(kinds))

\* PipeLine(pplid) of an id the store cannot verify either raises or yields a
\* pipeline without files; both outcomes are explored
LoadOutcomes(ppls) ==
    IF \E i \in 1..Len(ppls) : ~Verify(ppls[i]) THEN {TRUE, FALSE} ELSE {FALSE}

RECURSIVE StageRemote(_, _, _, _)
StageRemote(lab, ppls, acc, loadRaises) ==
    IF ppls = <<>> THEN [members |-> acc, err |-> ""]
    ELSE IF ~Verify(Head(ppls)) /\ loadRaises
         THEN [members |-> acc, err |-> "ValueError: PipeLine load"]
         ELSE StageRemote(lab, Tail(ppls),
                          acc \o StageArtsRemote(lab, Head(ppls), NonConfigKinds),
                          loadRaises)

\* _export_remote_to_base
ExportRemoteToBase(lab, ppls, prev_transfer_id, mode, loadRaises) ==
    LET transfer_id == "r_" \o ToString(minted + 1)
        zip_path    == settings[lab].data_path
                          \o <<"TransfersOut", transfer_id \o ".zip">>
        dirs1       == dirs \cup {Parent(zip_path)}
        meta        == [NoMeta EXCEPT !.transfer_id = <<transfer_id>>,
                                      !.origin_lab_id = settings[lab].lab_id,
                                      !.prev_transfer_id = prev_transfer_id,
                                      !.direction = "remote_to_base",
                                      !.transfer_type = "results",
                                      !.ppls = ppls]
        staged      == StageRemote(lab, ppls,
                                   <<Member(TransferJson, MetaBody(meta))>>, loadRaises)
        evOpen      == <<Ev("open", zip_path)>>
        moved       == IF mode = "move"
                       THEN MoveApply(MoveTargets(lab, ppls), [fs |-> fs, dirs |-> dirs1],
                                      <<>>)
                       ELSE [fs |-> fs, dirs |-> dirs1, events |-> <<>>]
    IN  IF ~EnsureRemote(settings[lab])
        THEN Raised("RuntimeError: Operation allowed only in REMOTE lab")
        ELSE IF staged.err # ""
        THEN Outcome(staged.err, fs, dirs1, (zip_path :> staged.members) @@ zips,
                     cloneJson, minted + 1, zip_path,
                     evOpen \o WriteEvents(staged.members) \o <<Ev("close", zip_path)>>)
        ELSE Outcome("ok", moved.fs, moved.dirs, (zip_path :> staged.members) @@ zips,
                     cloneJson, minted + 1, zip_path,
                     evOpen \o WriteEvents(staged.members) \o <<Ev("seal", zip_path)>>
                            \o moved.events)

\* export_transfer: the outcomes of one call
ExportTransfer(lab, ppls, clone_id, transfer_type, prev_transfer_id, mode) ==
    LET role == settings[lab].lab_role
    IN  IF role = "base"
        THEN IF clone_id = ""
             THEN {Raised("ValueError: clone_id required")}
             ELSE {ExportBaseToRemote(lab, ppls, clone_id, transfer_type, mode)}
        ELSE IF role = "remote"
        THEN IF ~RemoteMayExport(transfer_type)
             THEN {Raised("RuntimeError: Remote can only export results")}
             ELSE { ExportRemoteToBase(lab, ppls, prev_transfer_id, mode, r) :
                       r \in LoadOutcomes(ppls) }
        ELSE {Raised("RuntimeError: Unknown lab role")}

----------------------------------------------------------------------------
\* Import

\* a member test that misses parent-directory segments
IsUnsafeMember_AbsoluteOnly(name) == IsAbsolute(name)

\* the test _safe_extract makes on every member before extracting
IsUnsafeMember(name) == IsAbsolute(name) \/ \E i \in 1..Len(name) : name[i] = ".."

\* where ZipFile.extractall puts a member: drive, root, '', '.' and '..' are dropped
Sanitize(name) == SelectSeq(name, LAMBDA x : x \notin {"/", "", ".", ".."})

RECURSIVE ExtractAll(_, _, _)
\* zf.extractall(target_dir)
ExtractAll(members, target_dir, st) ==
    IF members = <<>> THEN st
    ELSE LET dest == target_dir \o Sanitize(Head(members).name)
         IN  ExtractAll(Tail(members), target_dir,
                        [fs   |-> WriteFs(st.fs, dest, Head(members).body),
                         dirs |-> MkdirP(st.dirs, Parent(dest))])

\* _safe_extract
SafeExtract(zip_path, target_dir, f, d) ==
    LET members == zips[zip_path]
        d1      == MkdirP(d, target_dir)
    IN  IF \E i \in 1..Len(members) : IsUnsafeMember(members[i].name)
        THEN [err |-> "ValueError: Unsafe ZIP content detected", fs |-> f, dirs |-> d1]
        ELSE LET st == ExtractAll(members, Normalize(target_dir), [fs |-> f, dirs |-> d1])
             IN  [err |-> "", fs |-> st.fs, dirs |-> st.dirs]

RECURSIVE Materialize(_, _, _, _, _)
\* the loop that installs the staged files under the lab root
Materialize(items, extract_dir, lab_base, mode, st) ==
    IF items = <<>> THEN [err |-> "", fs |-> st.fs, dirs |-> st.dirs]
    ELSE LET item   == Head(items)
             target == lab_base \o RelativeTo(item, extract_dir)
             d1     == MkdirP(st.dirs, Parent(target))
         IN  IF Name(item) = "transfer.json"
             THEN Materialize(Tail(items), extract_dir, lab_base, mode, st)
             ELSE IF target \in d1
             THEN [err |-> "IsADirectoryError", fs |-> st.fs, dirs |-> d1]
             ELSE Materialize(Tail(items), extract_dir, lab_base, mode,
                     [fs   |-> IF mode = "move"
                               THEN Without(WriteFs(st.fs, target, st.fs[item]), {item})
                               ELSE WriteFs(st.fs, target, st.fs[item]),
                      dirs |-> d1])

\* the keyword parameters TransferContext.__init__ declares
TransferContextParams == {"path_map", "component_map", "transfer_id"}

\* the keyword arguments _import_on_remote passes to TransferContext
ImportContextKwargs == {"path_map", "component_map", "transfer_id", "origin_lab_id"}

\* Path(k).as_posix()
AsPosix(p) == SelectSeq(p, LAMBDA x : x # ".")

\* TransferContext.__init__
TransferContext(path_map, component_map, transfer_id) ==
    [path_map      |-> { <<AsPosix(kv[1]), AsPosix(kv[2])>> : kv \in path_map },
     component_map |-> component_map,
     transfer_id   |-> transfer_id,
     attached      |-> TRUE]

\* _import_on_remote
ImportOnRemote(lab, zip_path, meta, mode) ==
    LET lab_base      == Normalize(settings[lab].data_path)
        transfers_dir == lab_base \o <<"Transfers">>
        d1            == dirs \cup {transfers_dir}
        extract_dir   == Normalize(Join(transfers_dir, meta.transfer_id))
        d2            == MkdirP(d1, extract_dir)
        ex            == SafeExtract(zip_path, extract_dir, fs, d2)
        mat           == Materialize(FilesUnder(ex.fs, extract_dir), extract_dir,
                                     lab_base, mode, [fs |-> ex.fs, dirs |-> ex.dirs])
        done(result)  == Outcome(result, mat.fs, mat.dirs, zips, cloneJson, minted,
                                 zip_path, <<Ev("extractall", extract_dir)>>)
    IN  IF ex.err # ""
        THEN Outcome(ex.err, ex.fs, ex.dirs, zips, cloneJson, minted, zip_path, <<>>)
        ELSE IF mat.err # ""
        THEN done(mat.err)
        ELSE IF ~(ImportContextKwargs \subseteq TransferContextParams)
        THEN done("TypeError: unexpected keyword argument")
        ELSE [done("ok") EXCEPT !.settings =
                [settings EXCEPT ![lab].transfer_context =
                    TransferContext(meta.path_map, meta.component_map,
                                    meta.transfer_id)]]

\* _import_on_base
ImportOnBase(lab, zip_path, meta) ==
    LET results_dir == Join(settings[lab].data_path \o <<"RemoteResults">>,
                            meta.transfer_id)
        ex          == SafeExtract(zip_path, results_dir, fs, dirs)
    IN  Outcome(IF ex.err # "" THEN ex.err ELSE "ok", ex.fs, ex.dirs, zips, cloneJson,
                minted, zip_path,
                IF ex.err # "" THEN <<>> ELSE <<Ev("extractall", Normalize(results_dir))>>)

\* zf.read("transfer.json"): the last member of that name
ReadMeta(members) ==
    LET idx == { i \in 1..Len(members) : members[i].name = TransferJson }
    IN  members[CHOOSE i \in idx : \A j \in idx : j <= i].body.meta

\* import_transfer
ImportTransfer(lab, zip_path) ==
    LET members   == zips[zip_path]
        meta      == ReadMeta(members)
        direction == meta.direction
    IN  IF ~\E i \in 1..Len(members) : members[i].name = TransferJson
        THEN Raised("KeyError: transfer.json")
        ELSE IF direction = "base_to_remote"
        THEN IF ~EnsureRemote(settings[lab])
             THEN Raised("RuntimeError: Operation allowed only in REMOTE lab")
             ELSE ImportOnRemote(lab, zip_path, meta, "copy")
        ELSE IF direction = "remote_to_base"
        THEN IF ~EnsureBase(settings[lab])
             THEN Raised("RuntimeError: Operation allowed only in BASE lab")
             ELSE ImportOnBase(lab, zip_path, meta)
        ELSE Raised("RuntimeError: Unknown transfer direction")

----------------------------------------------------------------------------
\* Initial labs, archives handed in from outside, and the calls explored

BaseFiles ==
    (DataPath("B") \o <<"Configs", "p1">>      :> Data(11)) @@
    (DataPath("B") \o <<"Weights", "p1">>      :> Data(12)) @@
    (DataPath("B") \o <<"Logs", "p1", "a.txt">> :> Data(13)) @@
    (DataPath("B") \o <<"Configs", "p2">>      :> Data(21)) @@
    (DataPath("B") \o <<"Logs", "p2", "a.txt">> :> Data(23)) @@
    (<<"/", "ext", "p1">>                      :> Data(15))

\* a remote lab on which p1 has already run
RemoteFiles ==
    (DataPath("R") \o <<"Configs", "p1">>        :> Data(31)) @@
    (DataPath("R") \o <<"Weights", "p1">>        :> Data(32)) @@
    (DataPath("R") \o <<"Logs", "p1", "out.txt">> :> Data(33))

DirsOf(f) == UNION { Ancestors(Parent(p)) : p \in DOMAIN f }

InitDirs ==
    { DataPath(lab) : lab \in Labs } \cup {<<"/">>, <<"/", "in">>}
    \cup Ancestors(DataPath("B") \o <<"Clones", "c1">>)
    \cup Ancestors(DataPath("B") \o <<"Clones", "c2">>)

\* c1 is registered and has received one transfer; c2 has a directory but no
\* clone.json; c3 has neither
InitCloneJson == ("c1" :> <<"t_0">>)

CraftedMeta(direction, tid) ==
    [NoMeta EXCEPT !.transfer_id = <<tid>>, !.origin_lab_id = "Z",
                   !.direction = direction, !.transfer_type = "run",
                   !.ppls = <<"p1">>]

Passwd(abs) == IF abs THEN <<"/", "etc", "passwd">> ELSE <<"..", "..", "etc", "passwd">>

Evil(direction, abs, tid) ==
    << Member(<<"Configs", "p1">>, Data(41)),
       Member(Passwd(abs), Data(66)),
       Member(TransferJson, MetaBody(CraftedMeta(direction, tid))) >>

InitZips ==
    (<<"/", "in", "evil_rel_b2r.zip">> :> Evil("base_to_remote", FALSE, "x1")) @@
    (<<"/", "in", "evil_abs_b2r.zip">> :> Evil("base_to_remote", TRUE, "x2")) @@
    (<<"/", "in", "evil_rel_r2b.zip">> :> Evil("remote_to_base", FALSE, "x3")) @@
    (<<"/", "in", "evil_abs_r2b.zip">> :> Evil("remote_to_base", TRUE, "x4")) @@
    (<<"/", "in", "sideways.zip">> :>
        << Member(TransferJson, MetaBody(CraftedMeta("sideways", "x5"))),
           Member(<<"Configs", "p1">>, Data(41)) >>) @@
    (<<"/", "in", "nometa.zip">> :> << Member(<<"Configs", "p1">>, Data(41)) >>) @@
    (<<"/", "in", "mapped_b2r.zip">> :>
        << Member(<<"Configs", "p1">>, Data(41)),
           Member(<<"Weights", "p2">>, Data(42)),
           Member(TransferJson,
                  MetaBody([CraftedMeta("base_to_remote", "x7") EXCEPT
                              !.path_map = {<< <<"/", "B", ".", "data">>,
                                               <<"/", "R", "data">> >>},
                              !.component_map = {<<"comp.a", "comp.b">>}])) >>) @@
    (<<"/", "in", "escape_r2b.zip">> :>
        << Member(<<"p1">>, Data(77)),
           Member(TransferJson,
                  MetaBody([CraftedMeta("remote_to_base", "x8") EXCEPT
                              !.transfer_id = <<"..", "Configs">>])) >>) @@
    (<<"/", "in", "escape_b2r.zip">> :>
        << Member(<<"p9">>, Data(78)),
           Member(TransferJson,
                  MetaBody([CraftedMeta("base_to_remote", "x9") EXCEPT
                              !.transfer_id = <<"/", "ext">>])) >>)

PplLists == {<<"p1">>, <<"p1", "p2">>, <<"p1", "bad">>, <<"bad", "p1">>}

Modes == {"copy", "move"}

TransferTypes == {"run", "results"}

Call(lab, ppls, clone_id, transfer_type, prev, mode) ==
    [lab |-> lab, ppls |-> ppls, clone_id |-> clone_id,
     transfer_type |-> transfer_type, prev_transfer_id |-> prev, mode |-> mode]

ExportCalls ==
    { Call("B", l, c, "run", "", m) : l \in PplLists, c \in {"c1", "c2"}, m \in Modes }
    \cup { Call("B", <<"p1">>, c, "run", "", "copy") : c \in {"", "c3"} }
    \cup { Call("B", <<"p1">>, "c1", "results", "", "copy") }
    \cup { Call("R", l, "", t, "t_0", m) : l \in PplLists, t \in TransferTypes, m \in Modes }
    \cup { Call("X", <<"p1">>, "c1", "run", "", "copy") }

NoCall == [op |-> "none", lab |-> "", zip |-> NoPath, ppls |-> <<>>, clone_id |-> "",
           transfer_type |-> "", mode |-> "", result |-> "", events |-> <<>>]

\* no utility call is under study
NoUtil == [op |-> "none"]

----------------------------------------------------------------------------
\* Specification

Init ==
    /\ settings = InitSettings
    /\ fs \in {BaseFiles, BaseFiles @@ RemoteFiles}
    /\ dirs = InitDirs \cup DirsOf(fs)
    /\ zips = InitZips
    /\ cloneJson = InitCloneJson
    /\ minted = 0
    /\ nops = 0
    /\ last = NoCall
    /\ util = NoUtil

Apply(o) ==
    /\ settings' = o.settings
    /\ fs' = o.fs
    /\ dirs' = o.dirs
    /\ zips' = o.zips
    /\ cloneJson' = o.cloneJson
    /\ minted' = o.minted
    /\ nops' = nops + 1
    /\ util' = util

\* one call of export_transfer
Export ==
    /\ nops < MaxOps
    /\ \E c \in ExportCalls :
         \E o \in ExportTransfer(c.lab, c.ppls, c.clone_id, c.transfer_type,
                                 c.prev_transfer_id, c.mode) :
            /\ Apply(o)
            /\ last' = [op |-> "export", lab |-> c.lab, zip |-> o.zip, ppls |-> c.ppls,
                        clone_id |-> c.clone_id, transfer_type |-> c.transfer_type,
                        mode |-> c.mode, result |-> o.result, events |-> o.events]

\* one call of import_transfer on an archive that exists
Import ==
    /\ nops < MaxOps
    /\ \E lab \in Labs, zip_path \in DOMAIN zips :
         LET o == ImportTransfer(lab, zip_path)
         IN  /\ Apply(o)
             /\ last' = [NoCall EXCEPT !.op = "import", !.lab = lab, !.zip = zip_path,
                                       !.mode = "copy", !.result = o.result,
                                       !.events = o.events]

Next == Export \/ Import

Spec == Init /\ [][Next]_vars

----------------------------------------------------------------------------
\* Properties

Range(q) == { q[i] : i \in 1..Len(q) }

ExportStep == last'.op = "export" /\ nops' = nops + 1

ImportStep == last'.op = "import" /\ nops' = nops + 1

HasTransferJson(z) == \E i \in 1..Len(z) : z[i].name = TransferJson

DirectionOf(z) == ReadMeta(z).direction

\* a member path that is absolute or has a '..' segment
Escapes(name) == (Len(name) > 0 /\ name[1] = "/") \/ ".." \in Range(name)

RoleOf(lab) == InitSettings[lab].lab_role

\* the importing lab is the one the archive's direction is meant for
CounterDirection(lab, z) ==
    \/ DirectionOf(z) = "base_to_remote" /\ RoleOf(lab) = "remote"
    \/ DirectionOf(z) = "remote_to_base" /\ RoleOf(lab) = "base"

Unverifiable(ppls) == \E i \in 1..Len(ppls) : ppls[i] \notin ValidPpls

\* C1: importing an archive with a member whose path is absolute or has a
\* '..' segment, on the lab its direction is meant for, fails with the
\* unsafe-content error and writes no file: the files on disk (archives
\* included) are the same after the call as before it.
C1_UnsafeArchiveWritesNothing ==
    [][ ( /\ ImportStep
          /\ HasTransferJson(zips[last'.zip])
          /\ CounterDirection(last'.lab, zips[last'.zip])
          /\ \E i \in 1..Len(zips[last'.zip]) : Escapes(zips[last'.zip][i].name) )
        => ( /\ last'.result = "ValueError: Unsafe ZIP content detected"
             /\ fs' = fs
             /\ zips' = zips ) ]_vars

\* a remote lab has refused an archive that carries a '..' member
C1_Witness ==
    /\ last.op = "import"
    /\ last.lab = "R"
    /\ last.zip = <<"/", "in", "evil_rel_b2r.zip">>
    /\ last.result = "ValueError: Unsafe ZIP content detected"
    /\ DataPath("R") \o <<"Transfers", "x1">> \in dirs

\* C2 (as claimed): an export whose ppls contains an unverifiable pplid
\* fails, leaves no archive file for that transfer on disk and leaves every
\* clone's transfers list unchanged.
C2_InvalidPplidLeavesNoArchive ==
    [][ (ExportStep /\ Unverifiable(last'.ppls))
        => ( /\ last'.result # "ok"
             /\ DOMAIN zips' = DOMAIN zips
             /\ cloneJson' = cloneJson ) ]_vars

\* C3: on a remote lab, export_transfer with a transfer type other than
\* "results" fails without creating an archive or a directory and without
\* deleting anything, whatever the mode and the ppls.
C3_RemoteExportsResultsOnly ==
    [][ ( /\ ExportStep
          /\ RoleOf(last'.lab) = "remote"
          /\ last'.transfer_type # "results" )
        => ( /\ last'.result # "ok"
             /\ fs' = fs /\ dirs' = dirs /\ zips' = zips
             /\ cloneJson' = cloneJson ) ]_vars

\* a remote lab that holds artifacts of p1 has refused a "run" export in move mode
C3_Witness ==
    /\ last.op = "export"
    /\ last.lab = "R"
    /\ last.transfer_type = "run"
    /\ last.mode = "move"
    /\ last.result = "RuntimeError: Remote can only export results"
    /\ DataPath("R") \o <<"Weights", "p1">> \in DOMAIN fs

\* C4: import_transfer of an archive whose direction is not the
\* counter-direction of the importing lab (base_to_remote on a lab that is not
\* remote, remote_to_base on a lab that is not base, any other direction)
\* fails and changes nothing: no directory, no file, no transfer_context.
C4_WrongDirectionChangesNothing ==
    [][ ( /\ ImportStep
          /\ HasTransferJson(zips[last'.zip])
          /\ ~CounterDirection(last'.lab, zips[last'.zip]) )
        => ( /\ last'.result # "ok"
             /\ fs' = fs /\ dirs' = dirs /\ zips' = zips
             /\ settings' = settings
             /\ cloneJson' = cloneJson ) ]_vars

\* the base lab has refused an archive that it exported itself
C4_Witness ==
    /\ last.op = "import"
    /\ last.lab = "B"
    /\ IsPrefix(DataPath("B") \o <<"Clones">>, last.zip)
    /\ DirectionOf(zips[last.zip]) = "base_to_remote"
    /\ last.result = "RuntimeError: Operation allowed only in REMOTE lab"

OtherKinds == { a \in Range(ArtKinds) : a # "config" }

\* nothing is left at a path: no file, no directory, nothing below it
Gone(f, d, p) == p \notin d /\ \A q \in DOMAIN f : ~IsPrefix(p, q)

\* C5: after a successful export in mode "move", on either role, the config of
\* every exported pipeline is where it was with the body it had, nothing is
\* left at the path of any of its other artifacts, and every deletion comes
\* after the archive was sealed.
C5_MoveKeepsConfigDropsArtifacts ==
    [][ (ExportStep /\ last'.result = "ok" /\ last'.mode = "move")
        => ( /\ \A pplid \in Range(last'.ppls) :
                  LET cfg == GetPath(last'.lab, pplid, "config")
                  IN  /\ cfg \in DOMAIN fs => (cfg \in DOMAIN fs' /\ fs'[cfg] = fs[cfg])
                      /\ \A art \in OtherKinds :
                            Gone(fs', dirs', GetPath(last'.lab, pplid, art))
             /\ \A i \in 1..Len(last'.events) :
                  last'.events[i].ev = "delete"
                  => \E j \in 1..(i - 1) : last'.events[j].ev = "seal" ) ]_vars

\* a move export of p1 and p2 from base has deleted artifacts and left both configs
C5_Witness ==
    /\ last.op = "export"
    /\ last.lab = "B"
    /\ last.result = "ok"
    /\ last.mode = "move"
    /\ last.ppls = <<"p1", "p2">>
    /\ \E i \in 1..Len(last.events) : last.events[i].ev = "delete"
    /\ GetPath("B", "p1", "config") \in DOMAIN fs
    /\ GetPath("B", "p2", "config") \in DOMAIN fs
    /\ GetPath("B", "p1", "weights") \notin DOMAIN fs

\* the archive was written by a base export that also registered it
RegisteredExport(z) ==
    /\ HasTransferJson(z)
    /\ DirectionOf(z) = "base_to_remote"
    /\ \E c \in DOMAIN cloneJson : ReadMeta(z).transfer_id \in { <<t>> : t \in Range(cloneJson[c]) }

BaseUntouched(f) == \A p \in DOMAIN BaseFiles : p \in DOMAIN f /\ f[p] = BaseFiles[p]

\* C6 (as claimed): importing, on a remote lab without files, the archive of a
\* successful copy export of base completes successfully, leaves every
\* exported file at its lab-relative path on the remote with the same body,
\* and leaves the files of base as they were.
C6_RoundTrip ==
    [][ ( /\ ImportStep
          /\ last'.lab = "R"
          /\ RegisteredExport(zips[last'.zip])
          /\ BaseUntouched(fs)
          /\ \A q \in DOMAIN fs : ~IsPrefix(DataPath("R"), q) )
        => ( /\ last'.result = "ok"
             /\ \A i \in 1..Len(zips[last'.zip]) :
                  LET m == zips[last'.zip][i]
                  IN  m.name # TransferJson
                      => /\ DataPath("R") \o m.name \in DOMAIN fs'
                         /\ fs'[DataPath("R") \o m.name] = m.body
             /\ BaseUntouched(fs') ) ]_vars

\* C7 (as claimed): the archive of every successful export, in either
\* direction, has exactly one transfer.json member and it is the last member.
C7_TransferJsonLast ==
    (last.op = "export" /\ last.result = "ok")
    => LET z == zips[last.zip]
       IN  /\ Cardinality({ i \in 1..Len(z) : z[i].name = TransferJson }) = 1
           /\ z[Len(z)].name = TransferJson

\* C8 (as claimed): importing a safe base_to_remote archive on the remote lab
\* returns success and leaves as transfer_context exactly the context built
\* from the archive's transfer_id, path_map and component_map.
C8_ContextAttached ==
    ( /\ last.op = "import"
      /\ RoleOf(last.lab) = "remote"
      /\ HasTransferJson(zips[last.zip])
      /\ DirectionOf(zips[last.zip]) = "base_to_remote"
      /\ \A i \in 1..Len(zips[last.zip]) : ~Escapes(zips[last.zip][i].name) )
    => LET meta == ReadMeta(zips[last.zip])
       IN  /\ last.result = "ok"
           /\ settings[last.lab].transfer_context.attached
           /\ settings[last.lab].transfer_context.transfer_id = meta.transfer_id
           /\ settings[last.lab].transfer_context.component_map = meta.component_map
           /\ settings[last.lab].transfer_context.path_map
                 = { << SelectSeq(kv[1], LAMBDA x : x # "."),
                        SelectSeq(kv[2], LAMBDA x : x # ".") >> : kv \in meta.path_map }

C10_UnregisteredCloneCreatesNothing ==
    [][ ( /\ ExportStep
          /\ RoleOf(last'.lab) = "base"
          /\ last'.clone_id \notin DOMAIN cloneJson )
        => ( /\ last'.result # "ok"
             /\ DOMAIN zips' = DOMAIN zips
             /\ dirs' = dirs ) ]_vars

\* the directory that RemoteResults/<transfer_id>/ denotes in the lab
ResultsDir(lab, z) ==
    Normalize(Join(DataPath(lab) \o <<"RemoteResults">>, ReadMeta(z).transfer_id))

\* the body of the last member of that name
LastBody(z, name) ==
    z[CHOOSE i \in 1..Len(z) :
         z[i].name = name /\ \A j \in 1..Len(z) : z[j].name = name => j <= i].body

\* C11 (as claimed): on base, importing a remote_to_base archive without
\* unsafe members succeeds, leaves every member of the archive as a file under
\* RemoteResults/<transfer_id>/ with the member's body, and installs nothing
\* in the live lab tree: every file outside RemoteResults/ is as it was.
C11_ResultsSnapshotOnly ==
    [][ ( /\ ImportStep
          /\ RoleOf(last'.lab) = "base"
          /\ HasTransferJson(zips[last'.zip])
          /\ DirectionOf(zips[last'.zip]) = "remote_to_base"
          /\ \A i \in 1..Len(zips[last'.zip]) : ~Escapes(zips[last'.zip][i].name) )
        => LET z == zips[last'.zip]
               D == ResultsDir(last'.lab, z)
           IN  /\ last'.result = "ok"
               /\ \A i \in 1..Len(z) :
                    /\ D \o z[i].name \in DOMAIN fs'
                    /\ fs'[D \o z[i].name] = LastBody(z, z[i].name)
               /\ \A q \in (DOMAIN fs) \cup (DOMAIN fs') :
                    ~IsPrefix(DataPath(last'.lab) \o <<"RemoteResults">>, q)
                    => (q \in DOMAIN fs /\ q \in DOMAIN fs' /\ fs'[q] = fs[q]) ]_vars

\* C19 (as claimed): after a successful move export on base, every source
\* file that the export deleted is a member of the sealed archive, at its
\* lab-relative path and with its body.
C19_MoveLosesNothing ==
    [][ ( /\ ExportStep
          /\ RoleOf(last'.lab) = "base"
          /\ last'.result = "ok"
          /\ last'.mode = "move" )
        => \A q \in (DOMAIN fs) \ (DOMAIN fs') :
              \E i \in 1..Len(zips'[last'.zip]) :
                 /\ DataPath(last'.lab) \o zips'[last'.zip][i].name = q
                 /\ zips'[last'.zip][i].body = fs[q] ]_vars

\* C20 (as claimed): whatever transfer_id the archive's transfer.json holds,
\* the directory an import extracts into is a direct child of Transfers/ on a
\* remote lab and of RemoteResults/ on a base lab.
C20_ExtractionRootConfined ==
    last.op = "import"
    => \A i \in 1..Len(last.events) :
          last.events[i].ev = "extractall"
          => LET staging == DataPath(last.lab)
                               \o << IF RoleOf(last.lab) = "remote"
                                     THEN "Transfers" ELSE "RemoteResults" >>
             IN  /\ IsPrefix(staging, last.events[i].path)
                 /\ Len(last.events[i].path) = Len(staging) + 1

----------------------------------------------------------------------------
\* Dependency resolver (src/plf/_transfer_utils.py, TransferContext)

\* the transfer machinery stands still while a utility call is under study
TransferIdle ==
    /\ settings = InitSettings
    /\ fs = BaseFiles
    /\ dirs = InitDirs \cup DirsOf(BaseFiles)
    /\ zips = InitZips
    /\ cloneJson = InitCloneJson
    /\ minted = 0
    /\ nops = 0
    /\ last = NoCall

TransferUnchanged == UNCHANGED <<settings, fs, dirs, zips, cloneJson, minted, nops, last>>

\* the pipeline ids of the edges table
Nodes == {"a", "b", "c"}

\* no row, or a row whose prev is empty: "rows and rows[0][0]" is false
NoPrev == ""

\* longest list of pplids handed to resolve_dependencies
MaxInput == 2

\* the edges tables in which the LIMIT 1 query has one answer per pipeline
EdgeTables == [Nodes -> Nodes \cup {NoPrev}]

\* the lists of pplids a caller passes
RECURSIVE SeqsUpTo(_, _)
SeqsUpTo(S, n) ==
    IF n = 0 THEN {<<>>}
    ELSE LET shorter == SeqsUpTo(S, n - 1)
         IN  shorter \cup { Append(q, x) : q \in shorter, x \in S }

\* db.query("SELECT prev FROM edges WHERE next = ? LIMIT 1", (pplid,))
QueryPrev(prevOf, pplid) == prevOf[pplid]

Unseen_Always(prev_pplid, dependencies) == TRUE

\* "if prev_pplid not in dependencies"
Unseen(prev_pplid, dependencies) == prev_pplid \notin dependencies

RecursiveFlag_Off == FALSE

\* resolve_dependencies calls get_dependencies(pplid, recursive=True)
RecursiveFlag == TRUE

\* collect_deps: one lookup, then the walk goes on from the predecessor
RECURSIVE CollectDeps(_, _, _)
CollectDeps(prevOf, pplid, dependencies) ==
    LET prev_pplid == QueryPrev(prevOf, pplid)
    IN  IF prev_pplid # NoPrev /\ Unseen(prev_pplid, dependencies)
        THEN IF RecursiveFlag
             THEN CollectDeps(prevOf, prev_pplid, dependencies \cup {prev_pplid})
             ELSE dependencies \cup {prev_pplid}
        ELSE dependencies

GetDependencies(prevOf, pplid) == CollectDeps(prevOf, pplid, {})

Accumulate_Replace(all_pplids, deps) == deps

\* all_pplids.update(deps)
Accumulate(all_pplids, deps) == all_pplids \cup deps

\* the loop of resolve_dependencies over pplids[i..]
RECURSIVE ResolveFrom(_, _, _, _)
ResolveFrom(prevOf, pplids, i, all_pplids) ==
    IF i > Len(pplids) THEN all_pplids
    ELSE ResolveFrom(prevOf, pplids, i + 1,
                     Accumulate(all_pplids, GetDependencies(prevOf, pplids[i])))

\* resolve_dependencies; the returned list is taken as the set of its members
ResolveDependencies(prevOf, pplids) ==
    ResolveFrom(prevOf, pplids, 1, { pplids[i] : i \in 1..Len(pplids) })

\* list(all_pplids): the members in some order
RECURSIVE ListOf(_)
ListOf(S) ==
    IF S = {} THEN <<>>
    ELSE LET x == CHOOSE y \in S : TRUE IN <<x>> \o ListOf(S \ {x})

\* resolve_dependencies(pplids) has been entered: all_pplids = set(pplids),
\* and the first get_dependencies is about to make its first lookup
ResolveEntry(prevOf, pplids) ==
    [ op     |-> "resolve",
      prevOf |-> prevOf,
      pplids |-> pplids,
      idx    |-> 1,
      cur    |-> IF pplids = <<>> THEN NoPrev ELSE pplids[1],
      deps   |-> {},
      all    |-> { pplids[i] : i \in 1..Len(pplids) },
      lookups |-> 0,
      pc     |-> IF pplids = <<>> THEN "done" ELSE "walk" ]

InitResolve ==
    /\ TransferIdle
    /\ \E prevOf \in EdgeTables, pplids \in SeqsUpTo(Nodes, MaxInput) :
          util = ResolveEntry(prevOf, pplids)

\* one call of collect_deps: one lookup in the edges table
Lookup ==
    /\ util.op = "resolve"
    /\ util.pc = "walk"
    /\ LET prev_pplid == QueryPrev(util.prevOf, util.cur)
           found == prev_pplid # NoPrev /\ Unseen(prev_pplid, util.deps)
           deps == IF found THEN util.deps \cup {prev_pplid} ELSE util.deps
           more == util.idx < Len(util.pplids)
       IN  util' =
             IF found /\ RecursiveFlag
             THEN [util EXCEPT !.lookups = @ + 1, !.deps = deps, !.cur = prev_pplid]
             ELSE [util EXCEPT !.lookups = @ + 1,
                               !.all = Accumulate(@, deps),
                               !.deps = {},
                               !.idx = @ + 1,
                               !.cur = IF more THEN util.pplids[util.idx + 1] ELSE NoPrev,
                               !.pc = IF more THEN "walk" ELSE "done"]
    /\ TransferUnchanged

NextResolve == Lookup

SpecResolve == InitResolve /\ [][NextResolve]_vars

\* the pipeline reached from n by i predecessor steps, NoPrev past the end
RECURSIVE PrevIter(_, _, _)
PrevIter(prevOf, n, i) ==
    IF i = 0 THEN n
    ELSE LET m == PrevIter(prevOf, n, i - 1)
         IN  IF m = NoPrev THEN NoPrev ELSE prevOf[m]

Acyclic(prevOf) ==
    \A n \in Nodes : \A i \in 1..Cardinality(Nodes) : PrevIter(prevOf, n, i) # n

\* S with every transitive predecessor of its members
Closure(prevOf, S) ==
    { PrevIter(prevOf, n, i) : n \in S, i \in 0..Cardinality(Nodes) } \ {NoPrev}

\* C12: for an acyclic edges table with at most one predecessor per pipeline,
\* resolve_dependencies returns exactly the input pplids together with every
\* transitive predecessor of them.
C12_ResolveIsClosure ==
    (util.op = "resolve" /\ util.pc = "done" /\ Acyclic(util.prevOf))
    => util.all = Closure(util.prevOf, Range(util.pplids))

C12_Witness ==
    /\ util.op = "resolve"
    /\ util.pc = "done"
    /\ util.pplids = <<"c">>
    /\ util.prevOf = [n \in Nodes |-> IF n = "c" THEN "b" ELSE IF n = "b" THEN "a" ELSE NoPrev]
    /\ util.all = {"a", "b", "c"}

\* C13: resolving the output of resolve_dependencies again, over the same
\* edges table, gives the same set of pplids.
C13_ResolveIdempotent ==
    (util.op = "resolve" /\ util.pc = "done")
    => ResolveDependencies(util.prevOf, ListOf(util.all)) = util.all

C13_Witness ==
    /\ util.op = "resolve"
    /\ util.pc = "done"
    /\ util.pplids = <<"c", "a">>
    /\ util.prevOf = [n \in Nodes |-> IF n = "c" THEN "b" ELSE IF n = "b" THEN "c" ELSE NoPrev]
    /\ util.all = {"a", "b", "c"}
    /\ ResolveDependencies(util.prevOf, ListOf(util.all)) = {"a", "b", "c"}

\* the most lookups a call may make: one walk per input pplid, and a walk
\* adds a new pipeline at every lookup but its last
LookupBound(pplids) == Len(pplids) * (Cardinality(Nodes) + 1)

\* C17: for every edges table, cyclic ones included, resolve_dependencies
\* makes a bounded number of lookups: while it still walks it is below the
\* bound (so the walk ends), and it never exceeds it.
C17_ResolveTerminates ==
    util.op = "resolve"
    => /\ util.lookups <= LookupBound(util.pplids)
       /\ util.pc = "walk" => util.lookups < LookupBound(util.pplids)

C17_Witness ==
    /\ util.op = "resolve"
    /\ util.pc = "done"
    /\ util.pplids = <<"a", "b">>
    /\ util.prevOf = [n \in Nodes |-> IF n = "a" THEN "b" ELSE IF n = "b" THEN "a" ELSE "c"]
    /\ util.lookups = 6
    /\ util.all = {"a", "b"}

----------------------------------------------------------------------------
\* Context mapper over the persisted lineage
\* (src/plf/_transfer_utils.py, TransferContext.map_src, map_loc, map_cnfg)

\* the lab whose settings the mapper reads
MapperLab == "R"

\* Path(settings["data_path"]).resolve() / "Transfers"
TransfersDir == Normalize(settings[MapperLab].data_path) \o <<"Transfers">>

\* the pplids a caller asks about
MapperPplids == {"p1", "p2", "p3"}

\* dict.get(pplid) without an entry: None
NoTransfer == ""

\* ppl_to_transfer of the transfer config: pplid -> transfer_id
PplToTransfers ==
    { <<>>,
      ("p1" :> "t1"),
      ("p1" :> "t2"),
      ("p1" :> "t1") @@ ("p2" :> "t2") }

\* _load_transfer_meta of a missing transfer.json: {} read with .get defaults
EmptyMeta == [path_map |-> <<>>, loc_map |-> <<>>]

\* the transfer.json files under Transfers/: transfer_id -> its path_map and
\* loc_map, each a dict in insertion order
MetaStores ==
    LET t2 == [path_map |-> <<>>, loc_map |-> << <<<<"L2">>, <<"L8">>>> >>]
    IN  { ("t2" :> t2),
          ("t2" :> t2) @@ ("t1" :> EmptyMeta),
          ("t2" :> t2) @@ ("t1" :> [path_map |-> << <<<<"/", "x">>, <<"x">>>> >>,
                                    loc_map  |-> << <<<<"L1">>, <<"L9">>>> >>]),
          ("t2" :> t2) @@ ("t1" :> [path_map |-> << <<<<"/", "q">>, <<"q">>>>,
                                                    <<<<"/", "x">>, <<"/", "abs">>>> >>,
                                    loc_map  |-> <<>>]) }

Lineages == { [ppl_to_transfer |-> ptt, metas |-> m] : ptt \in PplToTransfers, m \in MetaStores }

TransferOf_First(ppl_to_transfer, pplid) == "t1"

\* self._cfg["ppl_to_transfer"].get(pplid)
TransferOf(ppl_to_transfer, pplid) ==
    IF pplid \in DOMAIN ppl_to_transfer THEN ppl_to_transfer[pplid] ELSE NoTransfer

\* _load_transfer_meta
LoadTransferMeta(metas, transfer_id) ==
    IF transfer_id \in DOMAIN metas THEN metas[transfer_id] ELSE EmptyMeta

\* dict.get(k, default) on a dict kept as a list of <<key, value>>
RECURSIVE DictGet(_, _, _)
DictGet(items, k, default) ==
    IF items = <<>> THEN default
    ELSE IF items[Len(items)][1] = k THEN items[Len(items)][2]
    ELSE DictGet(SubSeq(items, 1, Len(items) - 1), k, default)

\* values by Python type: a str and a pathlib.Path
Str(parts) == [type |-> "str", parts |-> parts]
PathObj(parts) == [type |-> "Path", parts |-> parts]

\* the outcome of a mapper call
Mapped(err, value, reads) == [err |-> err, value |-> value, reads |-> reads]

\* s.startswith(prefix)
StartsWith(s, prefix) == IsPrefix(prefix, s)

\* s.replace(old, new, 1) where s starts with old: new must be a str
StrReplace(s, old, new, reads) ==
    IF new.type # "str" THEN Mapped("TypeError", <<>>, reads)
    ELSE Mapped("none", new.parts \o SubSeq(s, Len(old) + 1, Len(s)), reads)

\* "for src, dst in path_map.items()": the loop variable src replaces the
\* argument of the same name
RECURSIVE MapSrcLoop(_, _, _, _)
MapSrcLoop(path_map, i, src, transfer_id) ==
    IF i > Len(path_map) THEN Mapped("none", src, 1)
    ELSE LET key == path_map[i][1]
             dst == PathObj(Join(TransfersDir \o <<transfer_id, "payload">>, path_map[i][2]))
         IN  IF StartsWith(key, key)
             THEN StrReplace(key, key, dst, 1)
             ELSE MapSrcLoop(path_map, i + 1, key, transfer_id)

\* map_src
MapSrc(lin, src, pplid) ==
    LET posix == AsPosix(src)
        transfer_id == TransferOf(lin.ppl_to_transfer, pplid)
    IN  IF transfer_id = NoTransfer THEN Mapped("none", posix, 0)
        ELSE MapSrcLoop(LoadTransferMeta(lin.metas, transfer_id).path_map, 1, posix, transfer_id)

\* map_loc
MapLoc(lin, loc, pplid) ==
    LET transfer_id == TransferOf(lin.ppl_to_transfer, pplid)
    IN  IF transfer_id = NoTransfer THEN Mapped("none", loc, 0)
        ELSE Mapped("none", DictGet(LoadTransferMeta(lin.metas, transfer_id).loc_map, loc, loc), 1)

\* the parameters map_src declares after self
MapSrcParams == <<"src", "pplid">>

\* a call of map_src with positional arguments
CallMapSrc(lin, args) ==
    IF Len(args) # Len(MapSrcParams) THEN Mapped("TypeError", <<>>, 0)
    ELSE MapSrc(lin, args[1], args[2])

\* config values: a str, a number, a dict (kids are <<key, value>>) and a
\* list (kids are <<empty key, item>>); keys are spelled letter by letter
StrV(v) == [t |-> "str", s |-> v, kids |-> <<>>]
NumV == [t |-> "int", s |-> <<>>, kids |-> <<>>]
DictV(kids) == [t |-> "dict", s |-> <<>>, kids |-> kids]
ListV(items) == [t |-> "list", s |-> <<>>, kids |-> [i \in 1..Len(items) |-> << <<>>, items[i] >>]]

\* "sub in k"
Contains(k, sub) ==
    \E i \in 1..(Len(k) - Len(sub) + 1) : SubSeq(k, i, i + Len(sub) - 1) = sub

KeyLoc == <<"l", "o", "c">>
KeySrc == <<"s", "r", "c">>
KeyPplid == <<"p", "p", "l", "i", "d">>

\* remap of map_cnfg: a dict or list is rewritten kid by kid, the first
\* failure ends the walk
RECURSIVE Remap(_, _, _)
RECURSIVE RemapKids(_, _, _, _, _)
RemapKids(lin, pplid, t, kids, i) ==
    IF i > Len(kids) THEN [err |-> "none", kids |-> kids]
    ELSE LET k == kids[i][1]
             v == kids[i][2]
             r == IF t = "dict" /\ Contains(k, KeyLoc) /\ v.t = "str"
                  THEN LET m == MapLoc(lin, v.s, pplid)
                       IN  [err |-> m.err, node |-> StrV(m.value)]
                  ELSE IF t = "dict" /\ Contains(k, KeySrc) /\ v.t = "str"
                  THEN LET m == CallMapSrc(lin, <<v.s>>)
                       IN  [err |-> m.err, node |-> StrV(m.value)]
                  ELSE Remap(lin, pplid, v)
         IN  IF r.err # "none" THEN [err |-> r.err, kids |-> kids]
             ELSE RemapKids(lin, pplid, t, [kids EXCEPT ![i] = <<k, r.node>>], i + 1)

Remap(lin, pplid, d) ==
    IF d.t \in {"dict", "list"}
    THEN LET r == RemapKids(lin, pplid, d.t, d.kids, 1)
         IN  [err |-> r.err, node |-> [d EXCEPT !.kids = r.kids]]
    ELSE [err |-> "none", node |-> d]

\* cnfg has the key k
HasKey(cnfg, k) == \E i \in 1..Len(cnfg.kids) : cnfg.kids[i][1] = k

\* map_cnfg
MapCnfg(lin, cnfg) ==
    IF ~HasKey(cnfg, KeyPplid) THEN [err |-> "KeyError", node |-> cnfg]
    ELSE Remap(lin, DictGet(cnfg.kids, KeyPplid, StrV(<<"">>)).s[1], cnfg)

\* the paths handed to map_src: canonical ones and ones with "." segments
SrcArgs ==
    { <<"/", "x", "y">>, <<"/", "x", ".", "y">>, <<"/", "q", "z">>,
      <<".", "w">>, <<"/", "x", "..", "y">> }

\* the locs handed to map_loc
LocArgs == { <<"L1">>, <<"L2">>, <<"L3">> }

\* the configs handed to map_cnfg
Cnfgs ==
    LET P(p) == <<KeyPplid, StrV(<<p>>)>>
    IN  { DictV(<< P("p1"), <<KeyLoc, StrV(<<"L1">>)>> >>),
          DictV(<< P("p3"), <<KeySrc, StrV(<<"/", "x", ".", "y">>)>> >>),
          DictV(<< P("p1"), <<<<"d", "_">> \o KeySrc, StrV(<<"/", "x", "y">>)>> >>),
          DictV(<< P("p1"), <<<<"n">>, DictV(<< <<KeyLoc, StrV(<<"L1">>)>>, <<<<"k">>, NumV>> >>)>> >>),
          DictV(<< P("p2"), <<<<"i">>, ListV(<< DictV(<< <<KeyLoc \o <<"a">>, StrV(<<"L2">>)>> >>),
                                               StrV(<<"L2">>) >>)>> >>),
          DictV(<< P("p3"), <<<<"k">>, NumV>>, <<KeyLoc, NumV>> >>),
          DictV(<< <<KeyLoc, StrV(<<"L1">>)>> >>) }

MapperOps == {"mapper", "map_src", "map_loc", "map_cnfg"}

\* a TransferContext has been constructed over one persisted lineage
InitMapper ==
    /\ TransferIdle
    /\ \E lin \in Lineages : util = [op |-> "mapper", lin |-> lin]

\* one call of map_src
MapSrcCall ==
    /\ util.op \in MapperOps
    /\ \E src \in SrcArgs, pplid \in MapperPplids :
          LET m == MapSrc(util.lin, src, pplid)
          IN  util' = [op |-> "map_src", lin |-> util.lin, src |-> src, pplid |-> pplid,
                       err |-> m.err, value |-> m.value, reads |-> m.reads]
    /\ TransferUnchanged

\* one call of map_loc
MapLocCall ==
    /\ util.op \in MapperOps
    /\ \E loc \in LocArgs, pplid \in MapperPplids :
          LET m == MapLoc(util.lin, loc, pplid)
          IN  util' = [op |-> "map_loc", lin |-> util.lin, loc |-> loc, pplid |-> pplid,
                       err |-> m.err, value |-> m.value, reads |-> m.reads]
    /\ TransferUnchanged

\* one call of map_cnfg
MapCnfgCall ==
    /\ util.op \in MapperOps
    /\ \E cnfg \in Cnfgs :
          LET m == MapCnfg(util.lin, cnfg)
          IN  util' = [op |-> "map_cnfg", lin |-> util.lin, cnfg |-> cnfg,
                       err |-> m.err, value |-> m.node]
    /\ TransferUnchanged

NextMapper == MapSrcCall \/ MapLocCall \/ MapCnfgCall

SpecMapper == InitMapper /\ [][NextMapper]_vars

\* the call was map_src or map_loc for a pplid without entry in ppl_to_transfer
UnrecordedCall ==
    /\ util.op \in {"map_src", "map_loc"}
    /\ util.pplid \notin DOMAIN util.lin.ppl_to_transfer

\* C14 (as claimed): for a pplid without entry in ppl_to_transfer, map_src
\* returns the very path it was given and map_loc the loc it was given,
\* without failing and without reading transfer metadata.
C14_UnrecordedIsIdentity ==
    UnrecordedCall
    => /\ util.err = "none"
       /\ util.reads = 0
       /\ util.value = IF util.op = "map_src" THEN util.src ELSE util.loc

\* C14 (amended): for a pplid without entry in ppl_to_transfer, map_src
\* returns the path it was given in canonical slash form (the very path when
\* it is canonical already) and map_loc returns the loc it was given, without
\* failing and without reading transfer metadata.
C14_UnrecordedIsCanonicalForm ==
    UnrecordedCall
    => /\ util.err = "none"
       /\ util.reads = 0
       /\ util.op = "map_loc" => util.value = util.loc
       /\ util.op = "map_src" =>
             /\ util.value = AsPosix(util.src)
             /\ (\A i \in 1..Len(util.src) : util.src[i] # ".") => util.value = util.src

C14_Witness ==
    /\ util.op = "map_src"
    /\ util.pplid = "p3"
    /\ util.lin.ppl_to_transfer = ("p1" :> "t1")
    /\ util.src = <<"/", "x", ".", "y">>
    /\ util.value = <<"/", "x", "y">>
    /\ util.reads = 0

\* the config as the claim describes its rewrite
RECURSIVE ClaimedRemap(_, _, _)
ClaimedRemap(lin, pplid, d) ==
    [d EXCEPT !.kids =
        [i \in 1..Len(d.kids) |->
            LET k == d.kids[i][1]
                v == d.kids[i][2]
            IN  << k,
                   IF d.t = "dict" /\ Contains(k, KeyLoc) /\ v.t = "str"
                   THEN StrV(MapLoc(lin, v.s, pplid).value)
                   ELSE IF d.t = "dict" /\ Contains(k, KeySrc) /\ v.t = "str"
                   THEN StrV(MapSrc(lin, v.s, pplid).value)
                   ELSE ClaimedRemap(lin, pplid, v) >>]]

\* C15 (as claimed): map_cnfg of a config that names its pplid returns,
\* without failing, the same structure with every string under a key
\* containing "loc" replaced by its map_loc, every string under a key
\* containing "src" replaced by its map_src for the config's pplid, and
\* everything else unchanged.
C15_ConfigRewritten ==
    (util.op = "map_cnfg" /\ HasKey(util.cnfg, KeyPplid))
    => /\ util.err = "none"
       /\ util.value = ClaimedRemap(util.lin,
                                    DictGet(util.cnfg.kids, KeyPplid, StrV(<<"">>)).s[1],
                                    util.cnfg)

\* C18 (as claimed): for a pplid whose recorded transfer has a non-empty
\* path_map, map_src returns the path unchanged when no key of path_map is a
\* prefix of it, and otherwise returns it with a matching key replaced by
\* <transfers_dir>/<transfer_id>/payload/<destination>.
C18_PrefixRewrite ==
    LET transfer_id == TransferOf(util.lin.ppl_to_transfer, util.pplid)
        path_map == LoadTransferMeta(util.lin.metas, transfer_id).path_map
        posix == AsPosix(util.src)
        hits == { i \in 1..Len(path_map) : StartsWith(posix, path_map[i][1]) }
    IN  (util.op = "map_src" /\ transfer_id # NoTransfer /\ path_map # <<>>)
        => /\ util.err = "none"
           /\ hits = {} => util.value \in {util.src, posix}
           /\ hits # {} =>
                 \E i \in hits :
                    util.value = Join(TransfersDir \o <<transfer_id, "payload">>, path_map[i][2])
                                    \o SubSeq(posix, Len(path_map[i][1]) + 1, Len(posix))

----------------------------------------------------------------------------
\* Clone report (src/plf1/transfer.py, get_clones)

\* what clones_root.iterdir() may yield: a plain file, a directory without
\* clone.json, a directory whose clone.json does not parse, and two
\* registered clones
CloneEntries ==
    { [name |-> "notes.txt", is_dir |-> FALSE, json |-> "missing", created_at |-> 0, transfers |-> <<>>],
      [name |-> "empty",     is_dir |-> TRUE,  json |-> "missing", created_at |-> 0, transfers |-> <<>>],
      [name |-> "broken",    is_dir |-> TRUE,  json |-> "broken",  created_at |-> 0, transfers |-> <<>>],
      [name |-> "c1",        is_dir |-> TRUE,  json |-> "ok",      created_at |-> 2, transfers |-> <<"t_0">>],
      [name |-> "c2",        is_dir |-> TRUE,  json |-> "ok",      created_at |-> 1, transfers |-> <<>>] }

\* the columns of the report
CloneColumns == <<"clone_id", "clone_type", "name", "desc", "created_at", "num_transfers">>

\* the entries that become a row: directories whose clone.json loads
Registered(entries) == { e \in entries : e.is_dir /\ e.json = "ok" }

\* rows.append({...}) for one clone.json
CloneRow(e) ==
    [clone_id |-> e.name, created_at |-> e.created_at, num_transfers |-> Len(e.transfers)]

\* df.sort_values("created_at"): the rows of S by ascending created_at
RECURSIVE SortByCreatedAt(_)
SortByCreatedAt(S) ==
    IF S = {} THEN <<>>
    ELSE LET first == CHOOSE e \in S : \A f \in S : e.created_at <= f.created_at
         IN  <<CloneRow(first)>> \o SortByCreatedAt(S \ {first})

\* pd.DataFrame(rows): the columns are the keys of the rows, none without rows
DataFrame(rows) ==
    [err |-> "none", columns |-> IF rows = <<>> THEN <<>> ELSE CloneColumns, rows |-> rows]

\* pd.DataFrame(columns=[...])
EmptyFrame(columns) == [err |-> "none", columns |-> columns, rows |-> <<>>]

\* get_clones
GetClones(lab, root_exists, entries) ==
    IF LabRole(lab) # "base"
    THEN [err |-> "RuntimeError", columns |-> <<>>, rows |-> <<>>]
    ELSE IF ~root_exists THEN EmptyFrame(CloneColumns)
    ELSE DataFrame(SortByCreatedAt(Registered(entries)))

\* a lab and the state of its Clones/ directory
InitClones ==
    /\ TransferIdle
    /\ \E lab \in Labs, root_exists \in BOOLEAN, entries \in SUBSET CloneEntries :
          /\ ~root_exists => entries = {}
          /\ util = [op |-> "registry", lab |-> lab, root_exists |-> root_exists,
                     entries |-> entries]

\* one call of get_clones
GetClonesCall ==
    /\ util.op = "registry"
    /\ util' = [op |-> "get_clones", lab |-> util.lab, root_exists |-> util.root_exists,
                entries |-> util.entries,
                df |-> GetClones(util.lab, util.root_exists, util.entries)]
    /\ TransferUnchanged

NextClones == GetClonesCall

SpecClones == InitClones /\ [][NextClones]_vars

\* C16 (as claimed): get_clones on a base lab without registered clones
\* returns a table with exactly the six report columns and no rows, whether
\* Clones/ is absent, empty, or holds only entries without readable
\* clone.json.
C16_EmptyReportKeepsColumns ==
    ( /\ util.op = "get_clones"
      /\ LabRole(util.lab) = "base"
      /\ Registered(util.entries) = {} )
    => /\ util.df.err = "none"
       /\ Range(util.df.columns) = Range(CloneColumns)
       /\ util.df.rows = <<>>

====
